---- MODULE Spec2Model ----
(***************************************************************************)
(* Model of src/bayesian_regression.py: class BayesianRegression.          *)
(*                                                                         *)
(* One instance is modelled, with one feature column (m = 1), so that the  *)
(* cached factorization is the single squared singular value d^2 = |X|^2.  *)
(* Floating-point values are represented by a small set of representative  *)
(* values (see FloatVals).  Inside the evidence-approximation loop the     *)
(* results of the floating-point update formulas (which involve log and    *)
(* long division chains) are over-approximated: every representative value *)
(* is a possible result.  Control flow, name resolution, exceptions and    *)
(* the assignments to instance fields are modelled statement by statement. *)
(***************************************************************************)
EXTENDS Integers, Sequences, FiniteSets, TLC

\* ---------------------------------------------------------------- bounds
MaxRows   == 3      \* X has 3..MaxRows rows
MaxVal    == 1      \* representative magnitudes 0..MaxVal of alpha and beta
MaxLL     == 1      \* representative finite log-evidence values 0..MaxLL
MaxIter   == 3      \* max_iter / iterations arguments range over 0..MaxIter
MaxThresh == 0      \* thresh argument ranges over 0..MaxThresh
MaxQuery  == 1      \* query rows range over 0..MaxQuery

\* ---------------------------------------------------------------- values
\* A Python value held in alpha, beta, w_mu, w_beta and the loop's locals.
\* kind "int": a Python int (the constructor's literal 0); kind "float": a
\* finite numpy float64; kind "inf" (v = 1 or -1) and kind "nan": the
\* non-finite float64 values numpy produces, with a warning and no exception,
\* on division by 0.0 or log(0).
Int0      == [kind |-> "int",   v |-> 0]
NaN       == [kind |-> "nan",   v |-> 0]
Inf(sgn)  == [kind |-> "inf",   v |-> sgn]
NoValue   == [kind |-> "none",  v |-> 0]
Flt(k)    == [kind |-> "float", v |-> k]
\* Values an update of alpha or beta can produce; NaN stands for every
\* non-finite one.
FloatVals == {Flt(k) : k \in 0..MaxVal} \cup {NaN}
\* np.random.random (line 154) draws from [0, 1).
RandomVals == {Flt(k) : k \in 0..MaxVal}
\* Values the log-evidence score (lines 185-186) can take: finite, nan, or
\* -inf (np.log(0) when an update returned 0).
LogLikeVals == {Flt(k) : k \in 0..MaxLL} \cup {NaN, Inf(-1)}
NoResult  == <<>>

Rows       == 3..MaxRows
Thresholds == 0..MaxThresh
Queries    == 0..MaxQuery
Iterations == 0..MaxIter
\* "fixed_point" is the default of fit's evidence_approx_method (line 199);
\* "EM" and "fixed-point" are the two values _evidence_approx compares with.
MethodNames == {"EM", "fixed-point", "fixed_point"}

RECURSIVE SumSeq(_)
SumSeq(s) == IF s = <<>> THEN 0 ELSE Head(s) + SumSeq(Tail(s))

\* The datasets: X is the single column 0, 2, 4, ... and Y = 4*X + 1, so that
\* the means are integers and centering is exact.
XData(n) == [k \in 1..n |-> 2 * (k - 1)]
YData(n) == [k \in 1..n |-> 8 * (k - 1) + 1]

\* _center (lines 46-55): subtract the mean, return the centered data.
center(x) == LET mu == SumSeq(x) \div Len(x) IN [k \in 1..Len(x) |-> x[k] - mu]

\* np.linalg.svd of a single centered column (line 35): the one singular value
\* d, kept as d^2 = sum of squares.
svd_dsq(x) == SumSeq([k \in 1..Len(x) |-> x[k] * x[k]])

VARIABLES
    constructed,      \* an instance exists
    ctor_steps,       \* the statements __init__ executed, in order
    X_self, Y_self,   \* self.X, self.Y (centered)
    thresh,           \* self.thresh
    dsq,              \* self.d squared (the cached factorization)
    alpha, beta,      \* self.alpha, self.beta
    w_mu, w_beta,     \* self.w_mu, self.w_beta
    Y_global,         \* the module-level name Y: [bound, val]
    pc,               \* "idle", or "loop" inside _evidence_approx's for loop
    method, max_iter, \* arguments of the call in progress / last call
    i,                \* loop index of _evidence_approx
    lalpha, lbeta,    \* locals alpha, beta of _evidence_approx
    log_likes,        \* local list log_likes
    steps,            \* update steps (lines 167-182) executed by the call
    mu_from,          \* response vector read at line 164 in the last iteration
    beta_resid_from,  \* response vector read by the residual of the beta update
    ll_resid_from,    \* response vector behind `error` read at line 186
    status,           \* how the last _evidence_approx run ended
    lastOp, lastError,\* last public call and the exception it raised
    fit_ok,           \* some fit call has returned normally
    lastQuery, lastResult, \* argument and return value of the last predict
    repeated          \* the last two calls were predict with the same query

vars == <<constructed, ctor_steps, X_self, Y_self, thresh, dsq, alpha, beta,
          w_mu, w_beta, Y_global, pc, method, max_iter, i, lalpha, lbeta,
          log_likes, steps, mu_from, beta_resid_from, ll_resid_from, status,
          lastOp, lastError, fit_ok, lastQuery, lastResult, repeated>>

data   == <<constructed, ctor_steps, X_self, Y_self, thresh, Y_global>>
fields == <<alpha, beta, w_mu, w_beta, dsq>>
frame  == <<i, lalpha, lbeta, log_likes, mu_from, beta_resid_from, ll_resid_from>>
predobs == <<lastQuery, lastResult, repeated>>

Unbound == [bound |-> FALSE, val |-> <<>>]

\* The locals of _evidence_approx do not exist outside a call.
NoFrame ==
    /\ i' = 0 /\ lalpha' = NoValue /\ lbeta' = NoValue /\ log_likes' = <<>>
    /\ mu_from' = <<>> /\ beta_resid_from' = <<>> /\ ll_resid_from' = <<>>

NoPredict == lastQuery' = 0 /\ lastResult' = NoResult /\ repeated' = FALSE

Init ==
    /\ constructed = FALSE /\ ctor_steps = <<>>
    /\ X_self = <<>> /\ Y_self = <<>> /\ thresh = 0 /\ dsq = 0
    /\ alpha = NoValue /\ beta = NoValue /\ w_mu = NoValue /\ w_beta = NoValue
    /\ Y_global = Unbound
    /\ pc = "idle" /\ method = "" /\ max_iter = 0
    /\ i = 0 /\ lalpha = NoValue /\ lbeta = NoValue /\ log_likes = <<>>
    /\ steps = 0 /\ mu_from = <<>> /\ beta_resid_from = <<>> /\ ll_resid_from = <<>>
    /\ status = "none" /\ lastOp = "none" /\ lastError = "none"
    /\ fit_ok = FALSE
    /\ lastQuery = 0 /\ lastResult = NoResult /\ repeated = FALSE

\* __init__ (lines 27-43), called as BayesianRegression(X, Y, th) with X of nx
\* rows and Y of ny elements.  script: the module runs as __main__, where the
\* argument Y is also the module-level name Y (lines 224-228); otherwise the
\* module is imported and has no global Y.
Construct(nx, ny, th, script) ==
    /\ ~constructed
    /\ constructed' = TRUE
    /\ X_self' = center(XData(nx))
    /\ Y_self' = center(YData(ny))
    /\ thresh' = th
    /\ dsq' = svd_dsq(center(XData(nx)))
    /\ ctor_steps' = <<"center X", "center Y", "svd", "fields">>
    /\ alpha' = Int0 /\ beta' = Int0
    /\ w_mu' = Int0 /\ w_beta' = Int0
    /\ Y_global' = IF script THEN [bound |-> TRUE, val |-> YData(ny)] ELSE Unbound
    /\ lastOp' = "construct" /\ lastError' = "none"
    /\ UNCHANGED <<pc, method, max_iter, steps, status, fit_ok>>
    /\ UNCHANGED frame /\ UNCHANGED predobs


\* The attributes the class body defines (lines 27-221).
ClassAttributes == {"__init__", "_center", "_weights_posterior_params",
                    "_pred_dist_params", "_evidence_approx", "fit", "predict",
                    "predict_mean"}

\* fit (lines 199-207): line 204 looks up self._fixed_point_evidence_approx,
\* which the class does not define, so the call raises AttributeError before
\* any statement of _evidence_approx or line 207 runs.
fit(evidence_approx_method, iterations) ==
    /\ constructed /\ pc = "idle"
    /\ "_fixed_point_evidence_approx" \notin ClassAttributes
    /\ lastOp' = "fit" /\ lastError' = "AttributeError"
    /\ method' = evidence_approx_method /\ max_iter' = iterations
    /\ steps' = 0 /\ status' = "none"
    /\ fit_ok' = fit_ok
    /\ NoFrame /\ NoPredict
    /\ UNCHANGED data /\ UNCHANGED fields /\ UNCHANGED pc

\* Python's alpha/beta at line 126: int/int with a zero divisor raises
\* ZeroDivisionError; with a numpy float on either side numpy returns inf or
\* nan and only warns.
ZeroDivision(a, b) == a.kind = "int" /\ b.kind = "int" /\ b.v = 0

\* mu_pred (line 125) for one query row x and one feature.
mu_pred(x, wm) == IF wm.kind \in {"nan", "inf"} THEN NaN ELSE [wm EXCEPT !.v = x * wm.v]

\* var_pred (lines 126-128) for one query row x and one feature, where v = 1:
\*   (1 + x^2 / (d^2 + a/b)) / b  =  (d^2 b + a + x^2 b) / (b (d^2 b + a)),
\* returned as the fraction <<numerator, denominator>>; <<0, 0>> is a
\* non-finite result.
var_pred(a, b, x, d2) ==
    IF a.kind \in {"nan", "inf"} \/ b.kind \in {"nan", "inf"} THEN <<0, 0>>
    ELSE IF b.v * (d2 * b.v + a.v) = 0 THEN <<0, 0>>
    ELSE <<d2 * b.v + a.v + x * x * b.v, b.v * (d2 * b.v + a.v)>>

\* _pred_dist_params (lines 95-129): the list [mu_pred, var_pred].
pred_dist_params(a, b, x, wm, d2) == <<mu_pred(x, wm), var_pred(a, b, x, d2)>>

\* predict as it would be if line 126 assigned to self.d instead of the local
\* d: the cached singular value is overwritten by the call.
predict_assigns_self_d(x) ==
    /\ constructed /\ pc = "idle"
    /\ lastOp' = "predict"
    /\ lastQuery' = x
    /\ repeated' = (lastOp = "predict" /\ lastQuery = x)
    /\ IF ZeroDivision(alpha, beta)
       THEN lastError' = "ZeroDivisionError" /\ lastResult' = NoResult
            /\ dsq' = dsq
       ELSE lastError' = "none"
            /\ lastResult' = pred_dist_params(alpha, beta, x, w_mu, dsq)
            /\ dsq' = 0
    /\ status' = "none" /\ steps' = 0
    /\ NoFrame
    /\ UNCHANGED data /\ UNCHANGED <<alpha, beta, w_mu, w_beta>>
    /\ UNCHANGED <<pc, method, max_iter, fit_ok>>

\* predict (lines 210-213) with the one-row query x.
predict(x) ==
    /\ constructed /\ pc = "idle"
    /\ lastOp' = "predict"
    /\ lastQuery' = x
    /\ repeated' = (lastOp = "predict" /\ lastQuery = x)
    /\ IF ZeroDivision(alpha, beta)
       THEN lastError' = "ZeroDivisionError" /\ lastResult' = NoResult
       ELSE lastError' = "none"
            /\ lastResult' = pred_dist_params(alpha, beta, x, w_mu, dsq)
    /\ status' = "none" /\ steps' = 0
    /\ NoFrame
    /\ UNCHANGED data /\ UNCHANGED fields
    /\ UNCHANGED <<pc, method, max_iter, fit_ok>>

\* log_likes[-1] - log_likes[-2] in IEEE arithmetic.
Diff(a, b) ==
    IF a.kind = "nan" \/ b.kind = "nan" THEN NaN
    ELSE IF a.kind = "inf" THEN (IF b.kind = "inf" /\ b.v = a.v THEN NaN ELSE a)
    ELSE IF b.kind = "inf" THEN Inf(0 - b.v)
    ELSE Flt(a.v - b.v)

\* a < th for a float a and the finite threshold th: false for nan and +inf.
Less(a, th) ==
    \/ a.kind = "float" /\ a.v < th
    \/ a.kind = "inf" /\ a.v < 0

\* The break test as it would be with <= in place of < at line 191.
converged_le(k, lls, th) ==
    /\ k >= 1
    /\ LET d == Diff(lls[Len(lls)], lls[Len(lls) - 1])
       IN  Less(d, th) \/ (d.kind = "float" /\ d.v = th)

\* The break test of lines 190-192, after log_like was appended at line 187.
converged(k, lls, th) ==
    /\ k >= 1
    /\ Less(Diff(lls[Len(lls)], lls[Len(lls) - 1]), th)

\* An exception leaves the loop and the call: the instance is not written and
\* the locals alpha and beta are lost with the frame.
Raise(err) ==
    /\ pc' = "idle" /\ status' = "Failed" /\ lastError' = err
    /\ UNCHANGED fields

\* _evidence_approx(max_iter = mi, method = meth), lines 151-159: the locals
\* are initialised and the loop is entered; range(0) leaves it at once.
evidence_approx(mi, meth) ==
    /\ constructed /\ pc = "idle"
    /\ lastOp' = "evidence_approx" /\ lastError' = "none"
    /\ method' = meth /\ max_iter' = mi
    /\ \E a, b \in RandomVals : lalpha' = a /\ lbeta' = b
    /\ IF mi = 0
       THEN pc' = "exit" /\ status' = "MaxIterationsReached"
       ELSE pc' = "loop" /\ status' = "Iterating"
    /\ i' = 0 /\ log_likes' = <<>> /\ steps' = 0
    /\ mu_from' = <<>> /\ beta_resid_from' = <<>> /\ ll_resid_from' = <<>>
    /\ NoPredict
    /\ UNCHANGED data /\ UNCHANGED fields /\ UNCHANGED fit_ok

\* One pass of the loop body, lines 161-192.
iteration ==
    /\ pc = "loop"
    /\ UNCHANGED data /\ UNCHANGED fit_ok /\ UNCHANGED predobs
    /\ UNCHANGED <<method, max_iter, lastOp>>
    /\ IF ~Y_global.bound
       THEN \* line 164: the name Y is neither a local nor a global
            /\ Raise("NameError")
            /\ lalpha' = NoValue /\ lbeta' = NoValue
            /\ UNCHANGED <<i, log_likes, steps>>
            /\ UNCHANGED <<mu_from, beta_resid_from, ll_resid_from>>
       ELSE IF Len(Y_global.val) # Len(X_self)
       THEN \* line 164: np.dot(self.u.T, Y) with Y of another length
            /\ Raise("ValueError")
            /\ lalpha' = NoValue /\ lbeta' = NoValue
            /\ UNCHANGED <<i, log_likes, steps>>
            /\ UNCHANGED <<mu_from, beta_resid_from, ll_resid_from>>
       ELSE
            /\ mu_from' = Y_global.val
            /\ IF method = "fixed-point"
               THEN \* lines 170-175: error = self.Y - np.dot(self.X, mu);
                    \* lines 185-192: the score is appended and tested
                    /\ \E a, b \in FloatVals : lalpha' = a /\ lbeta' = b
                    /\ steps' = steps + 1
                    /\ beta_resid_from' = Y_self
                    /\ ll_resid_from' = Y_self
                    /\ \E ll \in LogLikeVals : log_likes' = Append(log_likes, ll)
                    /\ IF converged(i, log_likes', thresh)
                       THEN pc' = "exit" /\ status' = "Converged" /\ i' = i
                       ELSE IF i + 1 = max_iter
                       THEN pc' = "exit" /\ status' = "MaxIterationsReached" /\ i' = i
                       ELSE i' = i + 1 /\ UNCHANGED <<pc, status>>
                    /\ UNCHANGED lastError /\ UNCHANGED fields
               ELSE IF method = "EM"
               THEN \* lines 180-182: the locals alpha and beta are updated and
                    \* err = Y - np.dot(self.X, mu); line 186 then reads the
                    \* local `error`, which EM never binds, and the updated
                    \* locals are lost with the frame
                    /\ lalpha' = NoValue /\ lbeta' = NoValue
                    /\ steps' = steps + 1
                    /\ beta_resid_from' = Y_global.val
                    /\ Raise("UnboundLocalError")
                    /\ UNCHANGED <<i, log_likes, ll_resid_from>>
               ELSE \* neither branch runs; line 186 reads the unbound `error`
                    /\ Raise("UnboundLocalError")
                    /\ lalpha' = NoValue /\ lbeta' = NoValue
                    /\ UNCHANGED <<i, log_likes, steps>>
                    /\ UNCHANGED <<beta_resid_from, ll_resid_from>>

\* Lines 195-196 and the return: the locals are written to the instance.
store ==
    /\ pc = "exit"
    /\ alpha' = lalpha /\ beta' = lbeta
    /\ pc' = "idle"
    /\ log_likes' = <<>>
    /\ UNCHANGED <<w_mu, w_beta, dsq>>
    /\ UNCHANGED data /\ UNCHANGED fit_ok /\ UNCHANGED predobs
    /\ UNCHANGED <<method, max_iter, lastOp, lastError, status, steps>>
    /\ UNCHANGED <<i, lalpha, lbeta, mu_from, beta_resid_from, ll_resid_from>>

Next ==
    \/ \E nx \in Rows, th \in Thresholds, script \in BOOLEAN :
         \E ny \in {nx - 1, nx} : Construct(nx, ny, th, script)
    \/ \E meth \in MethodNames, it \in Iterations : fit(meth, it)
    \/ \E x \in Queries : predict(x)
    \/ \E mi \in Iterations, meth \in MethodNames : evidence_approx(mi, meth)
    \/ iteration
    \/ store

Spec == Init /\ [][Next]_vars


\* ------------------------------------------------------------------ claims
Recognized == {"EM", "fixed-point"}
Unfitted   == alpha = Int0 /\ beta = Int0 /\ w_mu = Int0 /\ w_beta = Int0
Terminal   == {"Converged", "MaxIterationsReached"}

\* C1: a fit call with a recognized method and max_iterations >= 1 completes
\* without error (the loop runs, then the posterior parameters are computed).
C1_FitCompletes ==
    (lastOp = "fit" /\ method \in Recognized /\ max_iter >= 1)
        => (lastError = "none" /\ fit_ok)

\* C2: a fit call with an unrecognized method fails with InvalidArgument and
\* executes no hyperparameter update iteration.
C2_UnrecognizedMethodRejected ==
    (lastOp = "fit" /\ method \notin Recognized)
        => (lastError = "InvalidArgument" /\ steps = 0)

\* C3: predict on a model on which no fit call has completed fails with
\* NotFittedError and returns no means or variances.
C3_PredictBeforeFit ==
    (lastOp = "predict" /\ ~fit_ok)
        => (lastError = "NotFittedError" /\ lastResult = NoResult)

\* C4: constructing with X of n rows and Y of another length fails with
\* ShapeError, and no factorization step has run.
C4_ShapeCheckedFirst ==
    (lastOp = "construct" /\ Len(X_self) # Len(Y_self))
        => /\ lastError = "ShapeError"
           /\ \A k \in 1..Len(ctor_steps) : ctor_steps[k] # "svd"

\* C5: after a fit call that fails the model is unfitted: it holds no
\* hyperparameters or posterior parameters.
C5_FailedFitLeavesUnfitted ==
    (lastOp = "fit" /\ lastError # "none") => Unfitted

\* C6: predict is read-only: a predict call leaves alpha, beta, w_mu, w_beta,
\* the cached factorization and the centered data unchanged, and a predict call
\* that repeats the previous call's query returns the same result.
C6_PredictReadOnly ==
    [][lastOp' = "predict" =>
          /\ UNCHANGED <<alpha, beta, w_mu, w_beta, dsq, X_self, Y_self>>
          /\ (lastOp = "predict" /\ lastQuery' = lastQuery)
                => (lastResult' = lastResult /\ lastError' = lastError)]_vars

\* C6 witness: the same query was predicted twice in a row on a model whose
\* hyperparameters a completed run stored, and a finite variance came back.
C6_Witness ==
    /\ repeated /\ lastOp = "predict" /\ lastError = "none"
    /\ beta.kind = "float" /\ beta.v > 0
    /\ lastResult # NoResult /\ lastResult[2] # <<0, 0>>

\* C7: in every state from the end of construction on, alpha >= 0 and beta > 0.
C7_HyperparametersInRange ==
    constructed =>
        /\ alpha.kind \in {"int", "float"} /\ alpha.v >= 0
        /\ beta.kind \in {"int", "float"} /\ beta.v > 0

\* C8: a run of the evidence approximation with max_iter >= 1 executes at most
\* max_iter update steps and ends Converged or MaxIterationsReached, with the
\* stored (alpha, beta) equal to the values of the last update step.
C8_RunReachesTerminalState ==
    (lastOp = "evidence_approx" /\ max_iter >= 1)
        => /\ steps <= max_iter
           /\ status # "Failed"
           /\ (pc = "idle" /\ status \in Terminal)
                 => (steps >= 1 /\ alpha = lalpha /\ beta = lbeta)

\* No pass up to the k-th met the break test.
NoStopBefore(k) ==
    \A j \in 2..k : ~Less(Diff(log_likes[j], log_likes[j - 1]), thresh)

C10_SameCenteredResponse ==
    (lastOp = "evidence_approx" /\ steps >= 1)
        => /\ mu_from = Y_self
           /\ beta_resid_from = Y_self
           /\ ll_resid_from = Y_self

====
